---- MODULE Spec2Model ----
(***************************************************************************)
(* prodio: the recursive-descent parser (src/src/parser.rs) and the        *)
(* register allocator (src/src/reg_alloc.rs).                              *)
(*                                                                         *)
(* Two specifications share the module:                                    *)
(*   SpecAlloc  one run of IRGenerator::reg_alloc, one step per iteration  *)
(*              of its loop over ir_vec;                                   *)
(*   Spec       Parser::parse applied to token vectors of bounded length.  *)
(***************************************************************************)
EXTENDS Integers, Sequences, FiniteSets, TLC

VARIABLES
    \* ---- parser (parser.rs) ----
    tokens,        \* the token vector handed to Parser::new
    result,        \* what Parser::parse returned for it
    \* ---- register allocator (reg_alloc.rs) ----
    pc,            \* number of instructions of ir_vec the loop has visited
    ir0,           \* the instruction at position pc as IR generation emitted it
    ir,            \* the same instruction as reg_alloc left it (ir_vec[pc])
    is_reg_used,   \* [bool; REGISTER_COUNT]
    reg_map,       \* HashMap<usize, usize>: virtual -> real
    panicked,      \* alloc reached panic!("No availabale register")
    \* history of the input and of the output, read only by the properties
    seen,          \* virtual ids referenced so far
    killed,        \* virtual ids that have been the operand of a Kill
    doubleKill,    \* some id was the operand of a second Kill
    refAfterKill,  \* some id was referenced again after its Kill
    liveOver,      \* at some instruction more than REGISTER_COUNT ids were live
    sinceKill,     \* ids introduced since the last Kill
    resolved       \* virtual id -> set of real indices written for it into ir_vec

allocVars == <<pc, ir0, ir, is_reg_used, reg_map, panicked, seen, killed,
               doubleKill, refAfterKill, liveOver, sinceKill, resolved>>

parserVars == <<tokens, result>>

vars == <<parserVars, allocVars>>

(***************************************************************************)
(* Bounds of the model.  REGISTER_COUNT is crate::REGISTER_COUNT, defined  *)
(* outside src/ ("a compile-time-fixed positive integer"); the allocator   *)
(* is checked for a small register file.                                   *)
(***************************************************************************)
REGISTER_COUNT == 2
NumVirt == 3
MaxIR == 4
MaxTokens == 6

VirtRegs == 0 .. NumVirt - 1
RealRegs == 0 .. REGISTER_COUNT - 1

\* Option<usize>: None is the empty tuple, Some(n) the one-element tuple.
None == << >>
Some(n) == <<n>>
unwrap(o) == o[1]

SingleRegOps == {"Imm", "BpOffset", "Cond", "Return"}
DualRegOps == {"Add", "Sub", "Mul", "Div", "Store", "Load"}
\* Every IROp variant the `_ => ()` arm takes.
OtherOps == {"Other"}
\* rhs of a single-register instruction: absent, or an immediate / offset.
\* 0 is also a real register index, 8 is not.
Literals == {None, Some(0), Some(8)}

IR(op, lhs, rhs) == [op |-> op, lhs |-> lhs, rhs |-> rhs]


(***************************************************************************)
(* Tokens and locations (crate::lexer, crate::util).                       *)
(***************************************************************************)
Loc(s, e) == <<s, e>>

Min(a, b) == IF a <= b THEN a ELSE b
Max(a, b) == IF a >= b THEN a ELSE b

\* Loc::merge: the span covering both.
Merge(a, b) == Loc(Min(a[1], b[1]), Max(a[2], b[2]))

\* std::usize::MAX; only its being above every source offset matters, and
\* the checker's integers end here.
USIZE_MAX == 2147483647

Token(value, loc) == [value |-> value, loc |-> loc]

Number(n) == [kind |-> "Number", n |-> n]
Identifier(var) == [kind |-> "Identifier", var |-> var]
Punct(kind) == [kind |-> kind]

\* TokenKind values the lexer can hand over.
TokenKinds ==
    {Number(3), Identifier("a")}
    \cup {Punct(k) : k \in {"Int", "If", "Return", "LBrace", "RBrace", "LParen",
                            "RParen", "Semicolon", "Assignment", "Plus", "Minus",
                            "Asterisk", "Slash"}}

(***************************************************************************)
(* Ast constructors.  `toks` is not a field of the Rust Ast: it records    *)
(* the positions of the first and last token the node was built from, for  *)
(* the properties about locations.                                         *)
(***************************************************************************)
AstNum(n, loc, toks) == [kind |-> "Num", n |-> n, loc |-> loc, toks |-> toks]
AstVariable(var, loc, toks) == [kind |-> "Variable", var |-> var, loc |-> loc, toks |-> toks]
AstUniOp(op, e, loc, toks) == [kind |-> "UniOp", op |-> op, node |-> e, loc |-> loc, toks |-> toks]
AstBinOp(op, lhs, rhs, loc, toks) ==
    [kind |-> "BinOp", op |-> op, lhs |-> lhs, rhs |-> rhs, loc |-> loc, toks |-> toks]
AstAssignment(lhs, rhs, loc, toks) ==
    [kind |-> "Assignment", lhs |-> lhs, rhs |-> rhs, loc |-> loc, toks |-> toks]
AstDecl(lhs, rhs, loc, toks) ==
    [kind |-> "Decl", lhs |-> lhs, rhs |-> rhs, loc |-> loc, toks |-> toks]
AstIf(cond, then, loc, toks) ==
    [kind |-> "If", cond |-> cond, then |-> then, els |-> None, loc |-> loc, toks |-> toks]
AstCompStmt(stmts, loc, toks) == [kind |-> "CompStmt", stmts |-> stmts, loc |-> loc, toks |-> toks]
AstReturn(expr, loc, toks) == [kind |-> "Return", expr |-> expr, loc |-> loc, toks |-> toks]

\* Result<Ast, ParseError> of a grammar function, with the parser's `pos` after it.
Ok(ast, pos) == [ok |-> TRUE, ast |-> ast, pos |-> pos]
Err(e) == [ok |-> FALSE, err |-> e]

UnexpectedToken(t) == <<"UnexpectedToken", t>>
NotExpression(t) == <<"NotExpression", t>>
UnclosedOpenParen(t) == <<"UnclosedOpenParen", t>>
RedundantExpression(t) == <<"RedundantExpression", t>>
Eof == <<"Eof">>

\* `result` before Parser::parse has been called.
NotRun == [ok |-> FALSE, err |-> <<"NotRun">>]

(***************************************************************************)
(* Parser.  `pos` is the 0-based index of parser.rs; ts[pos + 1] is the    *)
(* current token.                                                          *)
(***************************************************************************)
peek(ts, pos) == IF Len(ts) = pos THEN None ELSE Some(ts[pos + 1])

\* next also moves pos forward by one when it returns a token.
next(ts, pos) == IF Len(ts) = pos THEN None ELSE Some(ts[pos + 1])

peekKind(ts, pos) == IF peek(ts, pos) = None THEN "" ELSE unwrap(peek(ts, pos)).value.kind

\* The `?` operator: an Err returns at once, an Ok value goes on into K.
Try(r, K(_)) == IF r.ok THEN K(r) ELSE r

\* An expect_token that moves on without comparing the kind.
expect_token_any(ts, pos, token_kind) ==
    IF next(ts, pos) = None THEN Err(Eof) ELSE [ok |-> TRUE, pos |-> pos + 1]

expect_token(ts, pos, token_kind) ==
    IF next(ts, pos) = None THEN Err(Eof)
    ELSE IF unwrap(next(ts, pos)).value.kind = token_kind THEN [ok |-> TRUE, pos |-> pos + 1]
    ELSE Err(UnexpectedToken(unwrap(next(ts, pos))))

RECURSIVE parse_stmt(_, _), comp_stmt_loop(_, _, _, _, _), parse_assign(_, _),
          parse_add(_, _), parse_add_loop(_, _, _), parse_mul(_, _),
          parse_mul_loop(_, _, _), parse_unary(_, _), parse_primary(_, _)

\* A closing match that reports the end of the stream inside a parenthesis
\* the way every other production does.
primary_close_eof(ts, token, node) ==
    IF next(ts, node.pos) = None THEN Err(Eof)
    ELSE IF unwrap(next(ts, node.pos)).value.kind = "RParen" THEN Ok(node.ast, node.pos + 1)
    ELSE Err(RedundantExpression(unwrap(next(ts, node.pos))))

\* `match self.next()` of the LParen arm: token is the '(' and node the
\* parenthesized expression.
primary_close(ts, token, node) ==
    IF next(ts, node.pos) = None THEN Err(UnclosedOpenParen(token))
    ELSE IF unwrap(next(ts, node.pos)).value.kind = "RParen" THEN Ok(node.ast, node.pos + 1)
    ELSE Err(RedundantExpression(unwrap(next(ts, node.pos))))

\* `match token.value` of parse_primary, for the token at pos.
primary_match(ts, pos, token) ==
    CASE token.value.kind = "Number" ->
            Ok(AstNum(token.value.n, token.loc, <<pos, pos>>), pos + 1)
      [] token.value.kind = "Identifier" ->
            Ok(AstVariable(token.value.var, token.loc, <<pos, pos>>), pos + 1)
      [] token.value.kind = "LParen" ->
            Try(parse_add(ts, pos + 1), LAMBDA node : primary_close(ts, token, node))
      [] OTHER -> Err(NotExpression(token))

parse_primary(ts, pos) ==
    IF next(ts, pos) = None THEN Err(Eof) ELSE primary_match(ts, pos, unwrap(next(ts, pos)))

\* A unary node whose location starts at the sign.
unary_node_sign_loc(ts, pos, node) ==
    AstUniOp(peekKind(ts, pos), node, Merge(ts[pos + 1].loc, node.loc), <<pos, node.toks[2]>>)

\* let loc = node.loc.clone(); Ast::uniop(op, node, loc), for the sign at pos.
unary_node(ts, pos, node) ==
    AstUniOp(peekKind(ts, pos), node, node.loc, <<pos, node.toks[2]>>)

parse_unary(ts, pos) ==
    IF peekKind(ts, pos) \in {"Plus", "Minus"}
    THEN Try(parse_primary(ts, pos + 1),
             LAMBDA node : Ok(unary_node(ts, pos, node.ast), node.pos))
    ELSE parse_primary(ts, pos)

\* let loc = lhs.loc.merge(&rhs.loc); Ast::binop(op, lhs, rhs, loc)
binop_node(op, lhs, rhs) ==
    AstBinOp(op, lhs, rhs, Merge(lhs.loc, rhs.loc), <<lhs.toks[1], rhs.toks[2]>>)

\* The loop of parse_mul, entered with the operand folded so far.
parse_mul_loop(ts, lhs, pos) ==
    IF peekKind(ts, pos) \in {"Asterisk", "Slash"}
    THEN Try(parse_unary(ts, pos + 1),
             LAMBDA rhs : parse_mul_loop(ts,
                             binop_node(IF peekKind(ts, pos) = "Asterisk" THEN "Mul" ELSE "Div",
                                        lhs, rhs.ast),
                             rhs.pos))
    ELSE Ok(lhs, pos)

parse_mul(ts, pos) ==
    Try(parse_unary(ts, pos), LAMBDA lhs : parse_mul_loop(ts, lhs.ast, lhs.pos))

\* A parse_add that parses everything after the operator as its right operand.
parse_add_loop_right(ts, lhs, pos) ==
    IF peekKind(ts, pos) \in {"Plus", "Minus"}
    THEN Try(parse_add(ts, pos + 1),
             LAMBDA rhs : Ok(binop_node(IF peekKind(ts, pos) = "Plus" THEN "Add" ELSE "Sub",
                                        lhs, rhs.ast),
                             rhs.pos))
    ELSE Ok(lhs, pos)

\* The loop of parse_add.
parse_add_loop(ts, lhs, pos) ==
    IF peekKind(ts, pos) \in {"Plus", "Minus"}
    THEN Try(parse_mul(ts, pos + 1),
             LAMBDA rhs : parse_add_loop(ts,
                             binop_node(IF peekKind(ts, pos) = "Plus" THEN "Add" ELSE "Sub",
                                        lhs, rhs.ast),
                             rhs.pos))
    ELSE Ok(lhs, pos)

parse_add(ts, pos) ==
    Try(parse_mul(ts, pos), LAMBDA lhs : parse_add_loop(ts, lhs.ast, lhs.pos))

parse_assign(ts, pos) ==
    Try(parse_add(ts, pos),
        LAMBDA lhs :
            IF peekKind(ts, lhs.pos) = "Assignment"
            THEN Try(parse_assign(ts, lhs.pos + 1),
                     LAMBDA rhs :
                         Ok(AstAssignment(lhs.ast, rhs.ast, Merge(lhs.ast.loc, rhs.ast.loc),
                                          <<lhs.ast.toks[1], rhs.ast.toks[2]>>),
                            rhs.pos))
            ELSE lhs)

\* The Identifier arm of parse_decl_var: `int` is at pos, token is the
\* identifier after it.
decl_var_rest(ts, pos, token, lhs) ==
    Try(expect_token(ts, pos + 2, "Assignment"),
        LAMBDA eq :
            Try(parse_add(ts, eq.pos),
                LAMBDA rhs :
                    Try(expect_token(ts, rhs.pos, "Semicolon"),
                        LAMBDA semi :
                            Ok(AstDecl(lhs, rhs.ast, Merge(lhs.loc, rhs.ast.loc),
                                       <<pos, rhs.pos>>),
                               semi.pos))))

\* Entered with the current token known to be `int`.
parse_decl_var(ts, pos) ==
    IF next(ts, pos + 1) = None THEN Err(Eof)
    ELSE IF unwrap(next(ts, pos + 1)).value.kind = "Identifier"
    THEN decl_var_rest(ts, pos, unwrap(next(ts, pos + 1)),
                       AstVariable(unwrap(next(ts, pos + 1)).value.var,
                                   unwrap(next(ts, pos + 1)).loc, <<pos + 1, pos + 1>>))
    ELSE Err(UnexpectedToken(unwrap(next(ts, pos + 1))))

\* The while loop of the `{` arm, with the statements and the loc so far.
comp_stmt_loop(ts, stmts, loc, open, pos) ==
    IF peekKind(ts, pos) # "RBrace"
    THEN Try(parse_stmt(ts, pos),
             LAMBDA stmt : comp_stmt_loop(ts, Append(stmts, stmt.ast),
                                          Merge(loc, stmt.ast.loc), open, stmt.pos))
    ELSE Ok(AstCompStmt(stmts, loc, <<open, pos>>), pos + 1)

parse_stmt(ts, pos) ==
    CASE peekKind(ts, pos) = "Int" -> parse_decl_var(ts, pos)
      [] peekKind(ts, pos) = "If" ->
            Try(expect_token(ts, pos + 1, "LParen"),
                LAMBDA lp :
                    Try(parse_assign(ts, lp.pos),
                        LAMBDA cond :
                            Try(expect_token(ts, cond.pos, "RParen"),
                                LAMBDA rp :
                                    Try(parse_stmt(ts, rp.pos),
                                        LAMBDA then :
                                            Ok(AstIf(cond.ast, then.ast,
                                                     Merge(cond.ast.loc, then.ast.loc),
                                                     <<pos, then.ast.toks[2]>>),
                                               then.pos)))))
      [] peekKind(ts, pos) = "LBrace" ->
            comp_stmt_loop(ts, << >>, Loc(USIZE_MAX, 0), pos, pos + 1)
      [] peekKind(ts, pos) = "Return" ->
            Try(parse_assign(ts, pos + 1),
                LAMBDA expr :
                    Try(expect_token(ts, expr.pos, "Semicolon"),
                        LAMBDA semi :
                            Ok(AstReturn(expr.ast, expr.ast.loc, <<pos, expr.pos>>), semi.pos)))
      [] OTHER ->
            Try(parse_assign(ts, pos),
                LAMBDA ast :
                    Try(expect_token(ts, ast.pos, "Semicolon"),
                        LAMBDA semi : Ok(ast.ast, semi.pos)))

\* The loop of Parser::parse, with the statements pushed so far.
RECURSIVE parse_loop(_, _, _)
parse_loop(ts, asts, pos) ==
    Try(parse_stmt(ts, pos),
        LAMBDA ast :
            IF peek(ts, ast.pos) # None
            THEN parse_loop(ts, Append(asts, ast.ast), ast.pos)
            ELSE [ok |-> TRUE, asts |-> Append(asts, ast.ast), pos |-> ast.pos])

\* Parser::new(&tokens).parse()
Parse(ts) == parse_loop(ts, << >>, 0)

(***************************************************************************)
(* Token vectors.  The lexer is outside src/: vectors are enumerated, each *)
(* token one character wide and one blank apart from the previous one,     *)
(* besides the two inputs of parser.rs's tests with their own offsets.     *)
(***************************************************************************)
\* "(5 + 2) * 31 - -10;"
TestCalculateTokens ==
    << Token(Punct("LParen"), Loc(0, 1)), Token(Number(5), Loc(1, 2)),
       Token(Punct("Plus"), Loc(3, 4)), Token(Number(2), Loc(5, 6)),
       Token(Punct("RParen"), Loc(6, 7)), Token(Punct("Asterisk"), Loc(8, 9)),
       Token(Number(31), Loc(10, 12)), Token(Punct("Minus"), Loc(13, 14)),
       Token(Punct("Minus"), Loc(15, 16)), Token(Number(10), Loc(16, 18)),
       Token(Punct("Semicolon"), Loc(18, 19)) >>

\* "abc = 3; def = 5; abc + def;"
TestAssignmentTokens ==
    << Token(Identifier("abc"), Loc(0, 3)), Token(Punct("Assignment"), Loc(4, 5)),
       Token(Number(3), Loc(6, 7)), Token(Punct("Semicolon"), Loc(7, 8)),
       Token(Identifier("def"), Loc(9, 12)), Token(Punct("Assignment"), Loc(13, 14)),
       Token(Number(5), Loc(15, 16)), Token(Punct("Semicolon"), Loc(16, 17)),
       Token(Identifier("abc"), Loc(18, 21)), Token(Punct("Plus"), Loc(22, 23)),
       Token(Identifier("def"), Loc(24, 27)), Token(Punct("Semicolon"), Loc(27, 28)) >>

\* The offset at which the next enumerated token starts.
NextStart(ts) == IF ts = << >> THEN 0 ELSE ts[Len(ts)].loc[2] + 1

\* A parse that failed at a token fails the same way on every longer vector
\* (the parser never read past that token), so only vectors whose parse
\* succeeded or ran out of tokens are extended.
Extensible(r) ==
    /\ r # NotRun
    /\ IF r.ok THEN TRUE ELSE r.err[1] \in {"Eof", "UnclosedOpenParen"}

(***************************************************************************)
(* IRGenerator::alloc                                                      *)
(***************************************************************************)
FreeSlots(used) == {i \in RealRegs : ~used[i]}

\* A scan from the top of the register file instead of from index 0.
LastFree(used) == CHOOSE i \in FreeSlots(used) : \A j \in FreeSlots(used) : i >= j

\* for i in 0..REGISTER_COUNT { if is_reg_used[i] { continue; } ... }
FirstFree(used) == CHOOSE i \in FreeSlots(used) : \A j \in FreeSlots(used) : i <= j

\* alloc without the reg_map.get lookup: every reference scans for a slot.
AllocNoLookup(ir_reg, used, map) ==
    LET v == unwrap(ir_reg) IN
    IF FreeSlots(used) # {}
    THEN LET i == FirstFree(used) IN
         [reg |-> Some(i), used |-> [used EXCEPT ![i] = TRUE],
          map |-> (v :> i) @@ map, panic |-> FALSE]
    ELSE [reg |-> ir_reg, used |-> used, map |-> map, panic |-> TRUE]

\* alloc without `is_reg_used[i] = true`.
AllocNoMark(ir_reg, used, map) ==
    LET v == unwrap(ir_reg) IN
    IF v \in DOMAIN map
    THEN [reg |-> Some(map[v]), used |-> used, map |-> map, panic |-> FALSE]
    ELSE IF FreeSlots(used) # {}
    THEN LET i == FirstFree(used) IN
         [reg |-> Some(i), used |-> used, map |-> (v :> i) @@ map, panic |-> FALSE]
    ELSE [reg |-> ir_reg, used |-> used, map |-> map, panic |-> TRUE]

Alloc(ir_reg, used, map) ==
    LET v == unwrap(ir_reg) IN
    IF v \in DOMAIN map
    THEN [reg |-> Some(map[v]), used |-> used, map |-> map, panic |-> FALSE]
    ELSE IF FreeSlots(used) # {}
    THEN LET i == FirstFree(used) IN
         [reg |-> Some(i), used |-> [used EXCEPT ![i] = TRUE],
          map |-> (v :> i) @@ map, panic |-> FALSE]
    ELSE [reg |-> ir_reg, used |-> used, map |-> map, panic |-> TRUE]

\* A Kill arm that forgets to clear the flag.
ReleaseNothing(used, r) == used

\* is_reg_used[ir.lhs.unwrap()] = false
Release(used, r) == [used EXCEPT ![r] = FALSE]

(***************************************************************************)
(* The arms of the match in reg_alloc.  Each takes the instruction and the *)
(* allocator state and yields the rewritten instruction, the new state and *)
(* the real indices written, per virtual id.  A panic inside an arm leaves *)
(* what was assigned before it.                                            *)
(***************************************************************************)
SingleArm(i, used, map) ==
    LET a == Alloc(i.lhs, used, map) IN
    [ir |-> IF a.panic THEN i ELSE [i EXCEPT !.lhs = a.reg],
     used |-> a.used, map |-> a.map, panic |-> a.panic,
     wrote |-> IF a.panic THEN {} ELSE {<<unwrap(i.lhs), unwrap(a.reg)>>}]

\* A dual-register arm that allocates ir.lhs only.
DualArmLhsOnly(i, used, map) ==
    LET a == Alloc(i.lhs, used, map) IN
    [ir |-> IF a.panic THEN i ELSE [i EXCEPT !.lhs = a.reg],
     used |-> a.used, map |-> a.map, panic |-> a.panic,
     wrote |-> IF a.panic THEN {} ELSE {<<unwrap(i.lhs), unwrap(a.reg)>>}]

DualArm(i, used, map) ==
    LET a == Alloc(i.lhs, used, map) IN
    IF a.panic
    THEN [ir |-> i, used |-> a.used, map |-> a.map, panic |-> TRUE, wrote |-> {}]
    ELSE LET b == Alloc(i.rhs, a.used, a.map) IN
         [ir |-> IF b.panic THEN [i EXCEPT !.lhs = a.reg]
                 ELSE [i EXCEPT !.lhs = a.reg, !.rhs = b.reg],
          used |-> b.used, map |-> b.map, panic |-> b.panic,
          wrote |-> {<<unwrap(i.lhs), unwrap(a.reg)>>}
                    \cup (IF b.panic THEN {} ELSE {<<unwrap(i.rhs), unwrap(b.reg)>>})]

KillArm(i, used, map) ==
    LET a == Alloc(i.lhs, used, map) IN
    IF a.panic
    THEN [ir |-> i, used |-> a.used, map |-> a.map, panic |-> TRUE, wrote |-> {}]
    ELSE [ir |-> [i EXCEPT !.lhs = a.reg],
          used |-> Release(a.used, unwrap(a.reg)), map |-> a.map, panic |-> FALSE,
          wrote |-> {<<unwrap(i.lhs), unwrap(a.reg)>>}]

OtherArm(i, used, map) ==
    [ir |-> i, used |-> used, map |-> map, panic |-> FALSE, wrote |-> {}]

\* The virtual ids an instruction refers to.
Refs(i) ==
    IF i.op \in SingleRegOps \cup {"Kill"} THEN {unwrap(i.lhs)}
    ELSE IF i.op \in DualRegOps THEN {unwrap(i.lhs), unwrap(i.rhs)}
    ELSE {}

\* The allocator uses a virtual id only as a key of reg_map, so every IR
\* vector is a renaming of one whose ids make their first appearance in the
\* order 0, 1, 2, ...; the IR vectors enumerated are those.
DenseIds(S) == S = 0 .. Cardinality(S) - 1

\* One iteration of `for ir in &mut self.ir_vec`, on instruction i, with the
\* outcome r of its arm.
Visit(i, r) ==
    /\ ~panicked
    /\ pc < MaxIR
    /\ DenseIds(seen \cup Refs(i))
    /\ pc' = pc + 1
    /\ ir0' = i
    /\ ir' = r.ir
    /\ is_reg_used' = r.used
    /\ reg_map' = r.map
    /\ panicked' = r.panic
    /\ seen' = seen \cup Refs(i)
    /\ killed' = IF i.op = "Kill" THEN killed \cup Refs(i) ELSE killed
    /\ doubleKill' = (doubleKill \/ (i.op = "Kill" /\ Refs(i) \cap killed # {}))
    /\ refAfterKill' = (refAfterKill \/ Refs(i) \cap killed # {})
    /\ liveOver' = (liveOver \/ Cardinality((seen \cup Refs(i)) \ killed) > REGISTER_COUNT)
    /\ sinceKill' = IF i.op = "Kill" THEN {} ELSE sinceKill \cup (Refs(i) \ seen)
    /\ resolved' = [v \in VirtRegs |->
                      resolved[v] \cup {w[2] : w \in {x \in r.wrote : x[1] = v}}]
    /\ UNCHANGED parserVars

SingleRegStep ==
    \E op \in SingleRegOps, l \in VirtRegs, r \in Literals :
        LET i == IR(op, Some(l), r) IN Visit(i, SingleArm(i, is_reg_used, reg_map))

DualRegStep ==
    \E op \in DualRegOps, l \in VirtRegs, r \in VirtRegs :
        LET i == IR(op, Some(l), Some(r)) IN Visit(i, DualArm(i, is_reg_used, reg_map))

KillStep ==
    \E l \in VirtRegs :
        LET i == IR("Kill", Some(l), None) IN Visit(i, KillArm(i, is_reg_used, reg_map))

OtherStep ==
    \E op \in OtherOps, l \in Literals, r \in Literals :
        LET i == IR(op, l, r) IN Visit(i, OtherArm(i, is_reg_used, reg_map))

AllocIdle ==
    /\ pc = 0
    /\ ir0 = IR("Other", None, None)
    /\ ir = IR("Other", None, None)
    /\ is_reg_used = [i \in RealRegs |-> FALSE]
    /\ reg_map = << >>
    /\ panicked = FALSE
    /\ seen = {}
    /\ killed = {}
    /\ doubleKill = FALSE
    /\ refAfterKill = FALSE
    /\ liveOver = FALSE
    /\ sinceKill = {}
    /\ resolved = [v \in VirtRegs |-> {}]

AllocInit ==
    /\ AllocIdle
    /\ tokens = << >>
    /\ result = NotRun

AllocNext == SingleRegStep \/ DualRegStep \/ KillStep \/ OtherStep

SpecAlloc == AllocInit /\ [][AllocNext]_vars

(***************************************************************************)
(* The parser's specification.  The driver first runs Parser::parse on the *)
(* empty vector or on the input of one of parser.rs's tests; each further  *)
(* step is the run on the vector one token longer.                         *)
(***************************************************************************)
ParseInput(ts) ==
    /\ result = NotRun
    /\ tokens' = ts
    /\ result' = Parse(tokens')
    /\ UNCHANGED allocVars

ParseRun(k) ==
    /\ Len(tokens) < MaxTokens
    /\ Extensible(result)
    /\ tokens' = Append(tokens, Token(k, Loc(NextStart(tokens), NextStart(tokens) + 1)))
    /\ result' = Parse(tokens')
    /\ UNCHANGED allocVars

Init ==
    /\ tokens = << >>
    /\ result = NotRun
    /\ AllocIdle

Next ==
    \/ \E ts \in {<< >>, TestCalculateTokens, TestAssignmentTokens} : ParseInput(ts)
    \/ \E k \in TokenKinds : ParseRun(k)

Spec == Init /\ [][Next]_vars

(***************************************************************************)
(* Properties of the register allocator (checked under SpecAlloc).         *)
(***************************************************************************)
\* Virtual registers resolved and not yet the operand of a Kill.
Live == DOMAIN reg_map \ killed

PhysOperands == {Some(r) : r \in RealRegs}

\* C1: sticky mapping.  No step of the pass changes or removes a binding of
\* reg_map, and every real index written into ir_vec for a virtual id v,
\* by any instruction, its Kill and references after its Kill included, is the
\* one index reg_map binds v to.
C1_StickyMapping ==
    [][ /\ \A v \in DOMAIN reg_map : v \in DOMAIN reg_map' /\ reg_map'[v] = reg_map[v]
        /\ \A v \in VirtRegs :
              /\ resolved[v] \subseteq resolved'[v]
              /\ Cardinality(resolved'[v]) <= 1
              /\ resolved'[v] # {} => (v \in DOMAIN reg_map' /\ resolved'[v] = {reg_map'[v]})
      ]_vars

\* A single-register instruction refers to v after v's Kill, while the slot
\* of v is bound to another id as well, and v is still rewritten to its slot.
C1_Witness ==
    /\ ~panicked
    /\ ir0.op \in SingleRegOps
    /\ unwrap(ir0.lhs) \in killed
    /\ ir.lhs = Some(reg_map[unwrap(ir0.lhs)])
    /\ \E u \in DOMAIN reg_map : u # unwrap(ir0.lhs) /\ reg_map[u] = reg_map[unwrap(ir0.lhs)]

\* C2 as stated: two distinct live virtual registers (resolved, not yet the
\* operand of a Kill) are never bound to the same real index, whatever the
\* IR sequence.
C2_NonAliasingAnyIR ==
    \A u \in Live, v \in Live : u # v => reg_map[u] # reg_map[v]

\* C2 amended: in a pass in which no virtual id has been the operand of a
\* second Kill, two distinct live virtual registers are never bound to the
\* same real index, and the slot of every live register is flagged in use.
C2_NonAliasing ==
    ~doubleKill =>
        /\ \A u \in Live, v \in Live : u # v => reg_map[u] # reg_map[v]
        /\ \A u \in Live : is_reg_used[reg_map[u]]

\* Every slot holds a live register, after a Kill released a slot that was
\* then bound again.
C2_Witness ==
    /\ ~doubleKill
    /\ ~panicked
    /\ Cardinality(Live) = REGISTER_COUNT
    /\ \E k \in killed, u \in Live : reg_map[k] = reg_map[u]

\* C3: exhaustion.  (a) More than REGISTER_COUNT distinct ids introduced with
\* no Kill in between end in the panic.  (b) The panic is raised exactly at
\* the first operand that is not in reg_map while no slot is free: a pass
\* that has not panicked has resolved every operand it visited.  (c) An IR
\* sequence in which no id is referenced after its Kill and at no
\* instruction more than REGISTER_COUNT ids are live does not panic.
C3_Exhaustion ==
    /\ Cardinality(sinceKill) > REGISTER_COUNT => panicked
    /\ panicked => /\ \E v \in Refs(ir0) : v \notin DOMAIN reg_map
                   /\ \A r \in RealRegs : is_reg_used[r]
    /\ ~panicked => Refs(ir0) \subseteq DOMAIN reg_map
    /\ (~refAfterKill /\ ~liveOver) => ~panicked

\* The pass panicked on an IR sequence that references no id after its Kill
\* and introduced REGISTER_COUNT + 1 ids with no Kill in between.
C3_Witness ==
    /\ panicked
    /\ ~refAfterKill
    /\ Cardinality(sinceKill) = REGISTER_COUNT + 1

\* C4: rewrite contract.  The instruction the loop has visited keeps its op;
\* lhs of a single-register op, both operands of a dual-register op and lhs
\* of a Kill are real indices in [0, REGISTER_COUNT); rhs of a
\* single-register op and of a Kill, and both operands of any other
\* instruction, are what IR generation emitted.
C4_RewriteContract ==
    (pc > 0 /\ ~panicked) =>
        /\ ir.op = ir0.op
        /\ DOMAIN ir = DOMAIN ir0
        /\ ir0.op \in SingleRegOps \cup {"Kill"} =>
              (ir.lhs \in PhysOperands /\ ir.rhs = ir0.rhs)
        /\ ir0.op \in DualRegOps => (ir.lhs \in PhysOperands /\ ir.rhs \in PhysOperands)
        /\ ir0.op \notin SingleRegOps \cup DualRegOps \cup {"Kill"} => ir = ir0

\* A Store whose two virtual operands, neither a real index, were both rewritten.
C4_Witness ==
    /\ ~panicked
    /\ ir0.op = "Store"
    /\ unwrap(ir0.lhs) \notin RealRegs
    /\ ir.lhs # ir0.lhs
    /\ ir.rhs # ir0.rhs

Kids(T) ==
    CASE T.kind \in {"Num", "Variable"} -> << >>
      [] T.kind = "UniOp" -> <<T.node>>
      [] T.kind \in {"BinOp", "Assignment", "Decl"} -> <<T.lhs, T.rhs>>
      [] T.kind = "If" -> <<T.cond, T.then>>
      [] T.kind = "CompStmt" -> T.stmts
      [] T.kind = "Return" -> <<T.expr>>

\* Every node of a sequence of trees, the trees themselves included.
RECURSIVE NodeSeq(_)
NodeSeq(Ts) ==
    IF Ts = << >> THEN << >>
    ELSE <<Head(Ts)>> \o NodeSeq(Kids(Head(Ts))) \o NodeSeq(Tail(Ts))

\* The locations of the Num and Variable leaves beneath a sequence of trees.
LeafLocs(Ts) ==
    LET ns == NodeSeq(Ts) IN
    {ns[i].loc : i \in {k \in 1 .. Len(ns) : ns[k].kind \in {"Num", "Variable"}}}

\* min start, max end of a set of locations; Loc(usize::MAX, 0) for none.
MergeAll(locs) ==
    IF locs = {} THEN Loc(USIZE_MAX, 0)
    ELSE Loc(CHOOSE s \in {l[1] : l \in locs} : \A l \in locs : s <= l[1],
             CHOOSE e \in {l[2] : l \in locs} : \A l \in locs : e >= l[2])

\* A tree without the `toks` annotation: the Ast the Rust code holds.
RECURSIVE Strip(_)
StripAll(Ts) == [i \in 1 .. Len(Ts) |-> Strip(Ts[i])]
Strip(T) ==
    CASE T.kind = "Num" -> [kind |-> "Num", n |-> T.n, loc |-> T.loc]
      [] T.kind = "Variable" -> [kind |-> "Variable", var |-> T.var, loc |-> T.loc]
      [] T.kind = "UniOp" -> [kind |-> "UniOp", op |-> T.op, node |-> Strip(T.node), loc |-> T.loc]
      [] T.kind = "BinOp" ->
            [kind |-> "BinOp", op |-> T.op, lhs |-> Strip(T.lhs), rhs |-> Strip(T.rhs),
             loc |-> T.loc]
      [] T.kind \in {"Assignment", "Decl"} ->
            [kind |-> T.kind, lhs |-> Strip(T.lhs), rhs |-> Strip(T.rhs), loc |-> T.loc]
      [] T.kind = "If" ->
            [kind |-> "If", cond |-> Strip(T.cond), then |-> Strip(T.then), els |-> T.els,
             loc |-> T.loc]
      [] T.kind = "CompStmt" -> [kind |-> "CompStmt", stmts |-> StripAll(T.stmts), loc |-> T.loc]
      [] T.kind = "Return" -> [kind |-> "Return", expr |-> Strip(T.expr), loc |-> T.loc]

\* The kind of the i-th token (1-based), "" outside the vector.
KindAt(ts, i) == IF i \in 1 .. Len(ts) THEN ts[i].value.kind ELSE ""

(***************************************************************************)
(* The grammar of the specification as a relation between a tree and the   *)
(* tokens i..j (1-based, inclusive) it stands for.  Left-associativity is  *)
(* the shape of the rule: the left operand of an operator of one level is  *)
(* of that level, the right operand of the next tighter one.               *)
(***************************************************************************)
RECURSIVE IsStmts(_, _, _, _), IsStmt(_, _, _, _), IsAssign(_, _, _, _), IsAdd(_, _, _, _),
          IsMul(_, _, _, _), IsUnary(_, _, _, _), IsPrimary(_, _, _, _)

\* Primary ::= Number | Identifier | "(" Add ")"
IsPrimary(ts, T, i, j) ==
    \/ /\ i = j
       /\ KindAt(ts, i) = "Number"
       /\ T.kind = "Num"
       /\ T.n = ts[i].value.n
       /\ T.loc = ts[i].loc
    \/ /\ i = j
       /\ KindAt(ts, i) = "Identifier"
       /\ T.kind = "Variable"
       /\ T.var = ts[i].value.var
       /\ T.loc = ts[i].loc
    \/ /\ i < j
       /\ KindAt(ts, i) = "LParen"
       /\ KindAt(ts, j) = "RParen"
       /\ IsAdd(ts, T, i + 1, j - 1)

\* Unary ::= ("+"|"-")? Primary
IsUnary(ts, T, i, j) ==
    \/ IsPrimary(ts, T, i, j)
    \/ /\ i < j
       /\ KindAt(ts, i) \in {"Plus", "Minus"}
       /\ T.kind = "UniOp"
       /\ T.op = KindAt(ts, i)
       /\ IsPrimary(ts, T.node, i + 1, j)

\* Mul ::= Unary (("*"|"/") Unary)*
IsMul(ts, T, i, j) ==
    \/ IsUnary(ts, T, i, j)
    \/ /\ T.kind = "BinOp"
       /\ T.op \in {"Mul", "Div"}
       /\ \E k \in i + 1 .. j - 1 :
             /\ KindAt(ts, k) = (IF T.op = "Mul" THEN "Asterisk" ELSE "Slash")
             /\ IsMul(ts, T.lhs, i, k - 1)
             /\ IsUnary(ts, T.rhs, k + 1, j)

\* Add ::= Mul (("+"|"-") Mul)*
IsAdd(ts, T, i, j) ==
    \/ IsMul(ts, T, i, j)
    \/ /\ T.kind = "BinOp"
       /\ T.op \in {"Add", "Sub"}
       /\ \E k \in i + 1 .. j - 1 :
             /\ KindAt(ts, k) = (IF T.op = "Add" THEN "Plus" ELSE "Minus")
             /\ IsAdd(ts, T.lhs, i, k - 1)
             /\ IsMul(ts, T.rhs, k + 1, j)

\* Assign ::= Add ("=" Assign)?
IsAssign(ts, T, i, j) ==
    \/ IsAdd(ts, T, i, j)
    \/ /\ T.kind = "Assignment"
       /\ \E k \in i + 1 .. j - 1 :
             /\ KindAt(ts, k) = "Assignment"
             /\ IsAdd(ts, T.lhs, i, k - 1)
             /\ IsAssign(ts, T.rhs, k + 1, j)

\* Stmt ::= DeclVar | IfStmt | CompStmt | ReturnStmt | ExprStmt
IsStmt(ts, T, i, j) ==
    CASE KindAt(ts, i) = "Int" ->
            /\ i + 4 <= j
            /\ KindAt(ts, i + 1) = "Identifier"
            /\ KindAt(ts, i + 2) = "Assignment"
            /\ KindAt(ts, j) = "Semicolon"
            /\ T.kind = "Decl"
            /\ T.lhs.kind = "Variable"
            /\ T.lhs.var = ts[i + 1].value.var
            /\ T.lhs.loc = ts[i + 1].loc
            /\ IsAdd(ts, T.rhs, i + 3, j - 1)
      [] KindAt(ts, i) = "If" ->
            /\ KindAt(ts, i + 1) = "LParen"
            /\ T.kind = "If"
            /\ T.els = None
            /\ \E k \in i + 3 .. j - 1 :
                  /\ KindAt(ts, k) = "RParen"
                  /\ IsAssign(ts, T.cond, i + 2, k - 1)
                  /\ IsStmt(ts, T.then, k + 1, j)
      [] KindAt(ts, i) = "LBrace" ->
            /\ i < j
            /\ KindAt(ts, j) = "RBrace"
            /\ T.kind = "CompStmt"
            /\ IsStmts(ts, T.stmts, i + 1, j - 1)
      [] KindAt(ts, i) = "Return" ->
            /\ i < j
            /\ KindAt(ts, j) = "Semicolon"
            /\ T.kind = "Return"
            /\ IsAssign(ts, T.expr, i + 1, j - 1)
      [] OTHER ->
            /\ i < j
            /\ KindAt(ts, j) = "Semicolon"
            /\ IsAssign(ts, T, i, j - 1)

\* Stmt*: the trees Ts, in order, stand for the tokens i..j, all of them.
IsStmts(ts, Ts, i, j) ==
    IF Ts = << >> THEN i = j + 1
    ELSE \E k \in i .. j : IsStmt(ts, Head(Ts), i, k) /\ IsStmts(ts, Tail(Ts), k + 1, j)

\* The tree test_calculate expects for "(5 + 2) * 31 - -10;".
TestCalculateAst ==
    [kind |-> "BinOp", op |-> "Sub",
     lhs |-> [kind |-> "BinOp", op |-> "Mul",
              lhs |-> [kind |-> "BinOp", op |-> "Add",
                       lhs |-> [kind |-> "Num", n |-> 5, loc |-> Loc(1, 2)],
                       rhs |-> [kind |-> "Num", n |-> 2, loc |-> Loc(5, 6)],
                       loc |-> Loc(1, 6)],
              rhs |-> [kind |-> "Num", n |-> 31, loc |-> Loc(10, 12)],
              loc |-> Loc(1, 12)],
     rhs |-> [kind |-> "UniOp", op |-> "Minus",
              node |-> [kind |-> "Num", n |-> 10, loc |-> Loc(16, 18)],
              loc |-> Loc(16, 18)],
     loc |-> Loc(1, 18)]

\* C6: expression shape.  Whenever the parse succeeds, the returned trees
\* are derivation trees of the tokens under the grammar: '*' '/' below '+'
\* '-', chains folded to the left, a parenthesized Add a single operand, a
\* sign wrapping exactly one Primary, '=' lowest and folded to the right.
C6_ExpressionShape ==
    result.ok => IsStmts(tokens, result.asts, 1, Len(tokens))

\* "(5 + 2) * 31 - -10;" parsed to Sub(Mul(Add(5,2),31), UnaryMinus(10)),
\* the tree test_calculate expects.
C6_Witness ==
    /\ tokens = TestCalculateTokens
    /\ result.ok
    /\ StripAll(result.asts) = <<TestCalculateAst>>

(***************************************************************************)
(* The grammar of the specification as a recognizer of the tokens i..j.    *)
(***************************************************************************)
RECURSIVE GStmts(_, _, _), GStmt(_, _, _), GAssign(_, _, _), GAdd(_, _, _), GMul(_, _, _),
          GUnary(_, _, _), GPrimary(_, _, _)

GPrimary(ts, i, j) ==
    \/ i = j /\ KindAt(ts, i) \in {"Number", "Identifier"}
    \/ i < j /\ KindAt(ts, i) = "LParen" /\ KindAt(ts, j) = "RParen" /\ GAdd(ts, i + 1, j - 1)

GUnary(ts, i, j) ==
    \/ GPrimary(ts, i, j)
    \/ i < j /\ KindAt(ts, i) \in {"Plus", "Minus"} /\ GPrimary(ts, i + 1, j)

GMul(ts, i, j) ==
    \/ GUnary(ts, i, j)
    \/ \E k \in i + 1 .. j - 1 :
          KindAt(ts, k) \in {"Asterisk", "Slash"} /\ GMul(ts, i, k - 1) /\ GUnary(ts, k + 1, j)

GAdd(ts, i, j) ==
    \/ GMul(ts, i, j)
    \/ \E k \in i + 1 .. j - 1 :
          KindAt(ts, k) \in {"Plus", "Minus"} /\ GAdd(ts, i, k - 1) /\ GMul(ts, k + 1, j)

GAssign(ts, i, j) ==
    \/ GAdd(ts, i, j)
    \/ \E k \in i + 1 .. j - 1 :
          KindAt(ts, k) = "Assignment" /\ GAdd(ts, i, k - 1) /\ GAssign(ts, k + 1, j)

GStmt(ts, i, j) ==
    \/ /\ KindAt(ts, i) = "Int"
       /\ KindAt(ts, i + 1) = "Identifier"
       /\ KindAt(ts, i + 2) = "Assignment"
       /\ i + 4 <= j
       /\ KindAt(ts, j) = "Semicolon"
       /\ GAdd(ts, i + 3, j - 1)
    \/ /\ KindAt(ts, i) = "If"
       /\ KindAt(ts, i + 1) = "LParen"
       /\ \E k \in i + 3 .. j - 1 :
             KindAt(ts, k) = "RParen" /\ GAssign(ts, i + 2, k - 1) /\ GStmt(ts, k + 1, j)
    \/ i < j /\ KindAt(ts, i) = "LBrace" /\ KindAt(ts, j) = "RBrace" /\ GStmts(ts, i + 1, j - 1)
    \/ i < j /\ KindAt(ts, i) = "Return" /\ KindAt(ts, j) = "Semicolon"
             /\ GAssign(ts, i + 1, j - 1)
    \/ i < j /\ KindAt(ts, j) = "Semicolon" /\ GAssign(ts, i, j - 1)

\* Program ::= Stmt*
GStmts(ts, i, j) ==
    \/ i = j + 1
    \/ \E k \in i .. j : GStmt(ts, i, k) /\ GStmts(ts, k + 1, j)

\* C7: program recognition.  Parser::parse returns Ok exactly for the token
\* vectors derivable from Program ::= Stmt*, the empty vector included; the
\* list it returns then holds the statements' trees in source order with
\* every token consumed; an error carries no AST.
C7_ProgramRecognition ==
    result # NotRun =>
        /\ result.ok <=> GStmts(tokens, 1, Len(tokens))
        /\ result.ok => /\ IsStmts(tokens, result.asts, 1, Len(tokens))
                        /\ result.pos = Len(tokens)
        /\ ~result.ok => DOMAIN result = {"ok", "err"}

\* What holds of parse in place of C7: the same, for every vector but the
\* empty one, which is rejected with Eof.
ProgramRecognitionNonEmpty ==
    result # NotRun =>
        /\ tokens # << >> => (result.ok <=> GStmts(tokens, 1, Len(tokens)))
        /\ tokens = << >> => result = Err(Eof)
        /\ result.ok => /\ IsStmts(tokens, result.asts, 1, Len(tokens))
                        /\ result.pos = Len(tokens)
                        /\ result.asts # << >>
        /\ ~result.ok => DOMAIN result = {"ok", "err"}

\* C8 as stated: every node's location is the merge of the locations of all
\* the tokens it was built from (its sign, keyword and braces included), so
\* start <= end.
C8_LocationCoversTokens ==
    result.ok =>
        LET ns == NodeSeq(result.asts) IN
        \A i \in 1 .. Len(ns) :
            /\ ns[i].loc = Loc(tokens[ns[i].toks[1] + 1].loc[1], tokens[ns[i].toks[2] + 1].loc[2])
            /\ ns[i].loc[1] <= ns[i].loc[2]

\* C8 amended: every node's location is the merge (min start, max end) of
\* the locations of the Number and Identifier tokens beneath it: it covers
\* no sign, parenthesis, keyword, '=', ';' or brace outside that span, and a
\* compound statement with no such token beneath it carries
\* Loc(usize::MAX, 0), whose start is above its end.
C8_LocationMerge ==
    result.ok =>
        LET ns == NodeSeq(result.asts) IN
        \A i \in 1 .. Len(ns) :
            /\ ns[i].loc = MergeAll(LeafLocs(<<ns[i]>>))
            /\ LeafLocs(<<ns[i]>>) # {} => ns[i].loc[1] < ns[i].loc[2]
            /\ ns[i].kind \in {"Num", "Variable"} => ns[i].loc = tokens[ns[i].toks[1] + 1].loc

\* A parse with a signed operand, whose location starts after the sign, and
\* an empty compound statement, located at Loc(usize::MAX, 0).
C8_Witness ==
    /\ result.ok
    /\ LET ns == NodeSeq(result.asts) IN
       /\ \E i \in 1 .. Len(ns) :
             /\ ns[i].kind = "UniOp"
             /\ ns[i].loc[1] > tokens[ns[i].toks[1] + 1].loc[1]
       /\ \E i \in 1 .. Len(ns) :
             /\ ns[i].kind = "CompStmt"
             /\ ns[i].stmts = << >>
             /\ ns[i].loc = Loc(USIZE_MAX, 0)

\* Positions (0-based) of a '(' that parse_primary consumes: any '(' but the
\* one an `if` is followed by.
PrimaryParens(ts) ==
    {p \in 0 .. Len(ts) - 1 : KindAt(ts, p + 1) = "LParen" /\ KindAt(ts, p) # "If"}

IntPositions(ts) == {p \in 0 .. Len(ts) - 1 : KindAt(ts, p + 1) = "Int"}

\* C10: declarations.  For a statement that starts with 'int': the end of
\* the stream after 'int', after the identifier or after the initializer
\* fails with Eof; a token other than an identifier after 'int', other than
\* '=' after the identifier, other than ';' after the initializer fails with
\* unexpected-token carrying that token; otherwise the statement is
\* Decl{lhs: Variable(name), rhs: the Add expression}.  For the first
\* statement of the vector the failure is the result of the whole parse, and
\* a successful parse starts with the Decl.
C10_Declaration ==
    result # NotRun =>
        \A p \in IntPositions(tokens) :
            LET d == parse_stmt(tokens, p)
                init == parse_add(tokens, p + 3)
                decl == [kind |-> "Decl",
                         lhs |-> [kind |-> "Variable", var |-> tokens[p + 2].value.var,
                                  loc |-> tokens[p + 2].loc],
                         rhs |-> Strip(init.ast),
                         loc |-> Merge(tokens[p + 2].loc, init.ast.loc)]
            IN
            /\ Len(tokens) = p + 1 => d = Err(Eof)
            /\ KindAt(tokens, p + 2) \notin {"Identifier", ""} =>
                  d = Err(UnexpectedToken(tokens[p + 2]))
            /\ KindAt(tokens, p + 2) = "Identifier" =>
                  /\ Len(tokens) = p + 2 => d = Err(Eof)
                  /\ KindAt(tokens, p + 3) \notin {"Assignment", ""} =>
                        d = Err(UnexpectedToken(tokens[p + 3]))
                  /\ (KindAt(tokens, p + 3) = "Assignment" /\ init.ok) =>
                        /\ init.pos = Len(tokens) => d = Err(Eof)
                        /\ KindAt(tokens, init.pos + 1) \notin {"Semicolon", ""} =>
                              d = Err(UnexpectedToken(tokens[init.pos + 1]))
                        /\ KindAt(tokens, init.pos + 1) = "Semicolon" =>
                              d.ok /\ d.pos = init.pos + 1 /\ Strip(d.ast) = decl
            /\ d.ok => /\ d.ast.kind = "Decl"
                       /\ KindAt(tokens, p + 2) = "Identifier"
                       /\ KindAt(tokens, p + 3) = "Assignment"
                       /\ init.ok
                       /\ KindAt(tokens, init.pos + 1) = "Semicolon"
            /\ p = 0 => IF d.ok THEN result.ok => result.asts[1] = d.ast
                        ELSE result = d

\* "int a = 3 ;" parsed to one Decl binding a to Num(3).
C10_Witness ==
    /\ Len(tokens) = 5
    /\ KindAt(tokens, 1) = "Int"
    /\ result.ok
    /\ Len(result.asts) = 1
    /\ result.asts[1].kind = "Decl"
    /\ result.asts[1].lhs.kind = "Variable"
    /\ result.asts[1].rhs.kind = "Num"

====
